---- MODULE Spec2Model ----
(***************************************************************************)
(* A model of solver.py: a script that connects to six ODrive motor        *)
(* controllers (one per cube face), puts each into closed-loop position    *)
(* control, and runs the fixed scramble / unscramble move lists from an    *)
(* interactive prompt.                                                     *)
(*                                                                         *)
(* Positions are floating-point numbers in the program.  They are modelled *)
(* as binary floating-point values with a MantBits-bit significand, written *)
(* as integers in units of 2^-(MantBits+2) revolution, so that 0.25        *)
(* revolution is 2^MantBits units and every addition rounds to nearest,    *)
(* ties to even, exactly as an IEEE-754 addition does.                     *)
(***************************************************************************)
EXTENDS Integers, Sequences, FiniteSets, TLC

\* ------------------------------------------------------------------ bounds
\* Significand width of the modelled floating-point format.
MantBits == 4
\* Number of S / U commands the prompt accepts in one run.
MaxCmds == 4
\* Longest move list handed to execute_sequence in SpecSeq.
MaxSeqLen == 2

\* ------------------------------------------------------- static tables
Faces == {"D", "U", "L", "B", "F", "R"}

\* SERIALS, as a mapping and in its iteration (insertion) order.
SERIALS ==
  [f \in Faces |->
     CASE f = "D" -> "395634623331"
       [] f = "U" -> "395134633331"
       [] f = "L" -> "396034693331"
       [] f = "B" -> "3971346B3331"
       [] f = "F" -> "395134623331"
       [] f = "R" -> "395934593331"]

SerialOrder == <<"D", "U", "L", "B", "F", "R">>

Serials == {SERIALS[f] : f \in Faces}

\* A move token is a string; it is modelled as its sequence of characters.
P == "'"

SCRAMBLE_SEQUENCE ==
  << <<"R">>, <<"U">>, <<"F", P>>, <<"L">>, <<"D", P>>, <<"B">>, <<"R", P>>,
     <<"F">>, <<"L", P>>, <<"D">>, <<"U", P>>, <<"B", P>>, <<"R">>, <<"L">>,
     <<"F">>, <<"D", P>>, <<"U">>, <<"B">>, <<"L", P>>, <<"R", P>> >>

\* UNSCRAMBLE_SEQUENCE with its fourth move left uninverted (U for U').
UNSCRAMBLE_SEQUENCE_Slip ==
  << <<"R">>, <<"L">>, <<"B", P>>, <<"U">>, <<"D">>, <<"F", P>>, <<"L", P>>,
     <<"R", P>>, <<"B">>, <<"U">>, <<"D", P>>, <<"L">>, <<"F", P>>, <<"R">>,
     <<"B", P>>, <<"D">>, <<"L", P>>, <<"F">>, <<"U", P>>, <<"R", P>> >>

UNSCRAMBLE_SEQUENCE ==
  << <<"R">>, <<"L">>, <<"B", P>>, <<"U", P>>, <<"D">>, <<"F", P>>, <<"L", P>>,
     <<"R", P>>, <<"B">>, <<"U">>, <<"D", P>>, <<"L">>, <<"F", P>>, <<"R">>,
     <<"B", P>>, <<"D">>, <<"L", P>>, <<"F">>, <<"U", P>>, <<"R", P>> >>

\* ------------------------------------------------- floating-point numbers
\* 0.25 revolution in model units.
QuarterRev == 2 ^ MantBits

Abs(x) == IF x < 0 THEN -x ELSE x

\* Spacing of representable values around magnitude a.
RECURSIVE Ulp(_)
Ulp(a) == IF a < 2 ^ MantBits THEN 1 ELSE 2 * Ulp(a \div 2)

\* Round an exact value to the nearest representable one, ties to even.
RoundToFloat(n) ==
  LET a  == Abs(n)
      u  == Ulp(a)
      q  == a \div u
      r  == a - q * u
      m  == IF 2 * r > u \/ (2 * r = u /\ q % 2 = 1) THEN q + 1 ELSE q
  IN  IF n < 0 THEN -(m * u) ELSE m * u

\* current + (quarter_turns * 0.25) in floating point.
FloatAdd(x, y) == RoundToFloat(x + y)

\* --------------------------------------------------------- Python helpers
\* str.endswith("'")
EndsWithPrime(move) == Len(move) > 0 /\ move[Len(move)] = P

\* str.upper() on the characters a line may hold.
UpperChar(c) ==
  CASE c = "s" -> "S"
    [] c = "u" -> "U"
    [] c = "q" -> "Q"
    [] c = "x" -> "X"
    [] OTHER -> c

\* The prompt without .upper().
Upper_Missing(line) == line

Upper(line) == [j \in 1..Len(line) |-> UpperChar(line[j])]

\* dict operations on a dict kept as a sequence of (face, odrv) items.
Keys(d) == {d[j].face : j \in 1..Len(d)}
Lookup(d, face) == (CHOOSE j \in 1..Len(d) : d[j].face = face)
\* A lookup that always yields the first handle of the dict.
Handle_First(d, face) == d[1].odrv

Handle(d, face) == d[Lookup(d, face)].odrv

\* -------------------------------------------------------------- devices
\* Values written by setup_motors to the trajectory planner.
VEL_LIMIT == 80
ACCEL_LIMIT == 150
DECEL_LIMIT == 150

\* One ODrive as the script sees it: the axis0 fields the script reads or
\* writes, and `error`, the firmware's own condition that makes it refuse
\* CLOSED_LOOP_CONTROL (the case line 59 tests for).
Device(pos, inp, cmode, imode, err) ==
  [control_mode    |-> cmode,
   input_mode      |-> imode,
   vel_limit       |-> 2,
   accel_limit     |-> 1,
   decel_limit     |-> 1,
   input_pos       |-> inp,
   pos_estimate    |-> pos,
   requested_state |-> "UNDEFINED",
   current_state   |-> "IDLE",
   error           |-> err]

FaceOf(serial) == CHOOSE f \in Faces : SERIALS[f] = serial

\* The devices on the bus when the script starts: three situations.
\*  Fresh:   every axis at 0 with the firmware's default configuration.
\*  OffGrid: every axis at a position that is no multiple of 0.25 rev.
\*  Mixed:   multiples of 0.25 and other positions, a stale input_pos, and
\*           the F axis in an error condition.
FreshDevices ==
  [s \in Serials |-> Device(0, 0, "POSITION_CONTROL", "PASSTHROUGH", FALSE)]

OffGridPos ==
  [f \in Faces |->
     CASE f = "D" -> -1 [] f = "U" -> 1 [] f = "L" -> 2
       [] f = "B" -> 3  [] f = "F" -> -3 [] f = "R" -> 1]

OffGridDevices ==
  [s \in Serials |->
     Device(OffGridPos[FaceOf(s)], 0, "VELOCITY_CONTROL", "VEL_RAMP", FALSE)]

MixedPos ==
  [f \in Faces |->
     CASE f = "D" -> QuarterRev [] f = "U" -> -QuarterRev [] f = "L" -> 0
       [] f = "B" -> 2 * QuarterRev [] f = "F" -> 1 [] f = "R" -> -2]

MixedDevices ==
  [s \in Serials |->
     Device(MixedPos[FaceOf(s)], 2, "TORQUE_CONTROL", "PASSTHROUGH",
            FaceOf(s) = "F")]

InitialDevices == {FreshDevices, OffGridDevices, MixedDevices}

\* Lines typed at the prompt.
Lines ==
  { <<"s">>, <<"S">>, <<"u">>, <<"U">>, <<"q">>, <<"Q">>, <<"x">>, <<>>,
    <<"S", " ">>, <<"s", "u">>, <<"Q", "q">> }

\* ------------------------------------------------------------------ state
VARIABLES
  pc,          \* where the script is
  k,           \* index of the current item in the connect / setup loop
  odrives,     \* the dict of handles, as its items in insertion order
  returned,    \* what connect_odrives returned: "pending", "None" or "dict"
  lookups,     \* per face, how many times find_sync was called for it
  axis0,       \* per serial number, the device's axis0
  line,        \* the last line read by input()
  choice,      \* line.upper()
  sequence,    \* the move list execute_sequence is running
  i,           \* index of the next move of sequence
  issued,      \* the moves execute_sequence has commanded in this call
  scrambles,   \* number of completed S commands
  unscrambles, \* number of completed U commands
  setup_pos    \* per serial number, input_pos when setup_motors returned

vars == <<pc, k, odrives, returned, lookups, axis0, line, choice, sequence, i,
          issued, scrambles, unscrambles, setup_pos>>

NoPos == [s \in Serials |-> 0]

Init ==
  /\ pc = "connect"
  /\ k = 1
  /\ odrives = <<>>
  /\ returned = "pending"
  /\ lookups = [f \in Faces |-> 0]
  /\ axis0 \in InitialDevices
  /\ line = <<>>
  /\ choice = <<>>
  /\ sequence = <<>>
  /\ i = 1
  /\ issued = <<>>
  /\ scrambles = 0
  /\ unscrambles = 0
  /\ setup_pos = NoPos

\* -------------------------------------------------------- connect_odrives
\* One iteration of the loop whose find_sync succeeds.
ConnectFound ==
  /\ pc = "connect"
  /\ k <= Len(SerialOrder)
  /\ LET face == SerialOrder[k] IN
       /\ lookups' = [lookups EXCEPT ![face] = @ + 1]
       /\ odrives' = Append(odrives, [face |-> face, odrv |-> SERIALS[face]])
  /\ k' = k + 1
  /\ UNCHANGED <<pc, returned, axis0, line, choice, sequence, i, issued,
                 scrambles, unscrambles, setup_pos>>

\* The except branch without its return: report and go on with the next.
ConnectFailed_Continue ==
  /\ pc = "connect"
  /\ k <= Len(SerialOrder)
  /\ lookups' = [lookups EXCEPT ![SerialOrder[k]] = @ + 1]
  /\ k' = k + 1
  /\ UNCHANGED <<pc, odrives, returned, axis0, line, choice, sequence, i,
                 issued, scrambles, unscrambles, setup_pos>>

\* One iteration whose find_sync raises: print FAILED and return None.
ConnectFailed ==
  /\ pc = "connect"
  /\ k <= Len(SerialOrder)
  /\ lookups' = [lookups EXCEPT ![SerialOrder[k]] = @ + 1]
  /\ odrives' = <<>>
  /\ returned' = "None"
  /\ pc' = "main"
  /\ UNCHANGED <<k, axis0, line, choice, sequence, i, issued, scrambles,
                 unscrambles, setup_pos>>

\* The loop ran through every serial: return the dict.
ConnectReturn ==
  /\ pc = "connect"
  /\ k > Len(SerialOrder)
  /\ returned' = "dict"
  /\ pc' = "main"
  /\ UNCHANGED <<k, odrives, lookups, axis0, line, choice, sequence, i,
                 issued, scrambles, unscrambles, setup_pos>>

\* main without the test of line 92.
MainAfterConnect_NoCheck ==
  /\ pc = "main"
  /\ pc' = "setup_configure"
  /\ k' = 1
  /\ UNCHANGED <<odrives, returned, lookups, axis0, line, choice, sequence,
                 i, issued, scrambles, unscrambles, setup_pos>>

\* main, lines 91-96: stop if connect_odrives returned nothing.
MainAfterConnect ==
  /\ pc = "main"
  /\ IF returned = "None" \/ Len(odrives) = 0
       THEN pc' = "failed" /\ k' = k
       ELSE pc' = "setup_configure" /\ k' = 1
  /\ UNCHANGED <<odrives, returned, lookups, axis0, line, choice, sequence,
                 i, issued, scrambles, unscrambles, setup_pos>>

\* ----------------------------------------------------------- setup_motors
\* Lines 41-47 without line 51: input_pos keeps what the device held.
Configure_NoSync(d) ==
  [d EXCEPT !.control_mode = "POSITION_CONTROL",
            !.input_mode   = "TRAP_TRAJ",
            !.vel_limit    = VEL_LIMIT,
            !.accel_limit  = ACCEL_LIMIT,
            !.decel_limit  = DECEL_LIMIT]

\* Lines 41-51 on one device.
Configure(d) ==
  [d EXCEPT !.control_mode = "POSITION_CONTROL",
            !.input_mode   = "TRAP_TRAJ",
            !.vel_limit    = VEL_LIMIT,
            !.accel_limit  = ACCEL_LIMIT,
            !.decel_limit  = DECEL_LIMIT,
            !.input_pos    = d.pos_estimate]

\* Lines 54-55 on one device: the request, and what the firmware has made
\* of it when the one-second sleep ends.
EnterClosedLoop(d) ==
  [d EXCEPT !.requested_state = "CLOSED_LOOP_CONTROL",
            !.current_state   = IF d.error THEN d.current_state
                                ELSE "CLOSED_LOOP_CONTROL"]

SetupConfigure ==
  /\ pc = "setup_configure"
  /\ k <= Len(odrives)
  /\ axis0' = [axis0 EXCEPT ![odrives[k].odrv] = Configure(@)]
  /\ pc' = "setup_enter"
  /\ UNCHANGED <<k, odrives, returned, lookups, line, choice, sequence, i,
                 issued, scrambles, unscrambles, setup_pos>>

\* Lines 54-62: request closed loop, sleep, report; then the next item.
SetupEnterClosedLoop ==
  /\ pc = "setup_enter"
  /\ axis0' = [axis0 EXCEPT ![odrives[k].odrv] = EnterClosedLoop(@)]
  /\ k' = k + 1
  /\ pc' = "setup_configure"
  /\ UNCHANGED <<odrives, returned, lookups, line, choice, sequence, i,
                 issued, scrambles, unscrambles, setup_pos>>

\* Line 63: "All motors ready!", and main goes to its prompt.
SetupReturn ==
  /\ pc = "setup_configure"
  /\ k > Len(odrives)
  /\ pc' = "prompt"
  /\ setup_pos' = [s \in Serials |-> axis0[s].input_pos]
  /\ UNCHANGED <<k, odrives, returned, lookups, axis0, line, choice,
                 sequence, i, issued, scrambles, unscrambles>>

\* ------------------------------------------------------------ main's loop
\* What the if / elif chain of lines 101-120 does with a choice.
Dispatch(c) ==
  IF c = <<"S">> THEN "scramble"
  ELSE IF c = <<"U">> THEN "unscramble"
  ELSE IF c = <<"Q">> THEN "quit"
  ELSE "invalid"

\* Lines 99-120 up to the call of execute_sequence.
ReadCommand ==
  /\ pc = "prompt"
  /\ \E inp \in Lines :
       LET c == Upper(inp)
           what == Dispatch(c) IN
       /\ what \in {"scramble", "unscramble"} =>
            scrambles + unscrambles < MaxCmds
       /\ line' = inp
       /\ choice' = c
       /\ CASE what = "scramble" ->
                 /\ sequence' = SCRAMBLE_SEQUENCE
                 /\ i' = 1 /\ issued' = <<>> /\ pc' = "execute"
            [] what = "unscramble" ->
                 /\ sequence' = UNSCRAMBLE_SEQUENCE
                 /\ i' = 1 /\ issued' = <<>> /\ pc' = "execute"
            [] what = "quit" ->
                 /\ pc' = "exit"
                 /\ UNCHANGED <<sequence, i, issued>>
            [] OTHER ->
                 /\ pc' = "prompt"
                 /\ UNCHANGED <<sequence, i, issued>>
  /\ UNCHANGED <<k, odrives, returned, lookups, axis0, scrambles,
                 unscrambles, setup_pos>>

\* Lines 105-106 and 112-113: execute_sequence returned to main.
MainResume ==
  /\ pc = "execute"
  /\ i > Len(sequence)
  /\ Dispatch(choice) \in {"scramble", "unscramble"}
  /\ IF Dispatch(choice) = "scramble"
       THEN scrambles' = scrambles + 1 /\ UNCHANGED unscrambles
       ELSE unscrambles' = unscrambles + 1 /\ UNCHANGED scrambles
  /\ pc' = "prompt"
  /\ UNCHANGED <<k, odrives, returned, lookups, axis0, line, choice,
                 sequence, i, issued, setup_pos>>

\* ------------------------------------------------- rotate, execute_sequence
\* rotate taking the measured position as its starting point.
Rotate_FromEstimate(dev, odrv, quarter_turns) ==
  [dev EXCEPT ![odrv].input_pos =
     FloatAdd(dev[odrv].pos_estimate, quarter_turns * QuarterRev)]

\* Lines 67-69 on the device behind handle odrv.
Rotate(dev, odrv, quarter_turns) ==
  [dev EXCEPT ![odrv].input_pos = FloatAdd(@, quarter_turns * QuarterRev)]

\* The two directions exchanged.
Direction_Swapped(move) == IF EndsWithPrime(move) THEN 1 ELSE -1

\* Lines 75-80.
Direction(move) == IF EndsWithPrime(move) THEN -1 ELSE 1
FaceOfMove(move) == move[1]

\* One iteration of the loop of execute_sequence up to the write of line 69;
\* a face without a handle is reported and skipped (continue).
ExecuteMove ==
  /\ pc = "execute"
  /\ i <= Len(sequence)
  /\ LET move == sequence[i]
         face == FaceOfMove(move) IN
       IF face \notin Keys(odrives)
         THEN /\ i' = i + 1
              /\ UNCHANGED <<pc, axis0, issued>>
         ELSE /\ axis0' = Rotate(axis0, Handle(odrives, face), Direction(move))
              /\ issued' = Append(issued, move)
              /\ pc' = "sleep"
              /\ i' = i
  /\ UNCHANGED <<k, odrives, returned, lookups, line, choice, sequence,
                 scrambles, unscrambles, setup_pos>>

\* ------------------------------------------------------------ the firmware
\* time.sleep(0.08) of rotate, in milliseconds.
SLEEP_MS == 80

\* Whether the trajectory planner, with the limits setup_motors wrote, ends
\* a quarter turn within ms milliseconds.  With equal acceleration and
\* deceleration a and a peak speed below the velocity limit (a / 4 <= v^2),
\* a move of 1/4 rev lasts 2 * sqrt((1/4) / a) seconds, so it ends within ms
\* exactly when ms^2 * a >= 10^6.
PlannedWithin(d, ms) ==
  /\ d.accel_limit = d.decel_limit
  /\ d.accel_limit <= 4 * d.vel_limit * d.vel_limit
  /\ ms * ms * d.accel_limit >= 1000000

AtTarget(d) == [d EXCEPT !.pos_estimate = d.input_pos]

\* The devices after one more sleep of rotate.  `latest` is the device the
\* running rotate commanded: it has had one sleep; a device that was still
\* moving from an earlier command has had two or more.
AfterSleep(dev, latest) ==
  [s \in Serials |->
     IF /\ dev[s].current_state = "CLOSED_LOOP_CONTROL"
        /\ PlannedWithin(dev[s], IF s = latest THEN SLEEP_MS ELSE 2 * SLEEP_MS)
       THEN AtTarget(dev[s])
       ELSE dev[s]]

\* A motor in closed loop reaches its commanded position.  When it does is
\* the firmware's business: the script never asks.
TrajDone(s) ==
  /\ axis0[s].current_state = "CLOSED_LOOP_CONTROL"
  /\ axis0[s].pos_estimate # axis0[s].input_pos
  /\ axis0' = [axis0 EXCEPT ![s] = AtTarget(@)]
  /\ UNCHANGED <<pc, k, odrives, returned, lookups, line, choice, sequence,
                 i, issued, scrambles, unscrambles, setup_pos>>

\* Line 70: the 0.08 s sleep ends, rotate returns, "done" is printed.
RotateSleep ==
  /\ pc = "sleep"
  /\ axis0' = AfterSleep(axis0, Handle(odrives, FaceOfMove(sequence[i])))
  /\ pc' = "execute"
  /\ i' = i + 1
  /\ UNCHANGED <<k, odrives, returned, lookups, line, choice, sequence,
                 issued, scrambles, unscrambles, setup_pos>>

\* execute_sequence called on its own returns to its caller.
ExecuteReturn ==
  /\ pc = "execute"
  /\ i > Len(sequence)
  /\ pc' = "returned"
  /\ UNCHANGED <<k, odrives, returned, lookups, axis0, line, choice,
                 sequence, i, issued, scrambles, unscrambles, setup_pos>>

Next ==
  \/ ConnectFound
  \/ ConnectFailed
  \/ ConnectReturn
  \/ MainAfterConnect
  \/ SetupConfigure
  \/ SetupEnterClosedLoop
  \/ SetupReturn
  \/ ReadCommand
  \/ ExecuteMove
  \/ RotateSleep
  \/ MainResume
  \/ \E s \in Serials : TrajDone(s)

Spec == Init /\ [][Next]_vars

\* ------------------------------------------- execute_sequence on its own
\* execute_sequence is a function of a dict and a move list.  SpecSeq calls
\* it with dicts that lack some faces and with move lists that name faces
\* of no motor ("M"), on devices that setup_motors has prepared.
TestMoves == {<<f>> : f \in {"D", "F", "R", "M"}}
               \cup {<<f, P>> : f \in {"D", "F", "R", "M"}}

MoveLists == UNION {[1..n -> TestMoves] : n \in 0..MaxSeqLen}

FullDict == [j \in 1..Len(SerialOrder) |->
               [face |-> SerialOrder[j], odrv |-> SERIALS[SerialOrder[j]]]]

TestDicts == {SubSeq(FullDict, 1, n) : n \in 0..Len(FullDict)}

Prepared(dev, d) ==
  [s \in Serials |->
     IF \E j \in 1..Len(d) : d[j].odrv = s
       THEN EnterClosedLoop(Configure(dev[s]))
       ELSE dev[s]]

InitSeq ==
  /\ pc = "execute"
  /\ k = 1
  /\ odrives \in TestDicts
  /\ returned = "dict"
  /\ lookups = [f \in Faces |-> IF f \in Keys(odrives) THEN 1 ELSE 0]
  /\ \E dev \in InitialDevices : axis0 = Prepared(dev, odrives)
  /\ line = <<>>
  /\ choice = <<>>
  /\ sequence \in MoveLists
  /\ i = 1
  /\ issued = <<>>
  /\ scrambles = 0
  /\ unscrambles = 0
  /\ setup_pos = [s \in Serials |-> axis0[s].input_pos]

NextSeq ==
  \/ ExecuteMove
  \/ RotateSleep
  \/ ExecuteReturn
  \/ \E s \in Serials : TrajDone(s)

SpecSeq == InitSeq /\ [][NextSeq]_vars

\* ================================================================ claims
DeviceOfFace(face) == SERIALS[face]
IsPrimed(move) == move[Len(move)] = P
NoMoveYet == scrambles = 0 /\ unscrambles = 0 /\ issued = <<>>
InputPos(dev) == [s \in Serials |-> dev[s].input_pos]

\* C1: whenever connect_odrives has returned a mapping, the mapping holds
\* exactly six handles, one for each of D, U, L, B, F and R, each the
\* device of that face's serial number.
C1_AllOrNothing ==
  returned = "dict" =>
    /\ Len(odrives) = 6
    /\ Keys(odrives) = Faces
    /\ \A j \in 1..Len(odrives) : odrives[j].odrv = SERIALS[odrives[j].face]
    /\ \A a, b \in 1..Len(odrives) : odrives[a].face = odrives[b].face => a = b

C1_Witness == returned = "dict" /\ pc = "main" /\ Len(odrives) = 6

\* C2: when main is at its prompt, every connected motor's current state
\* is CLOSED_LOOP_CONTROL and its control mode is POSITION_CONTROL.
C2_ClosedLoopAtPrompt ==
  pc = "prompt" =>
    \A j \in 1..Len(odrives) :
      /\ axis0[odrives[j].odrv].current_state = "CLOSED_LOOP_CONTROL"
      /\ axis0[odrives[j].odrv].control_mode = "POSITION_CONTROL"

\* C3: until the first move is commanded, a motor whose closed-loop state
\* is about to be requested or has been requested has its commanded
\* position equal to its measured position.
C3_NoDiscontinuity ==
  NoMoveYet =>
    \A s \in Serials :
      (\/ axis0[s].requested_state = "CLOSED_LOOP_CONTROL"
       \/ (pc = "setup_enter" /\ odrives[k].odrv = s))
      => axis0[s].input_pos = axis0[s].pos_estimate

C3_Witness ==
  /\ pc = "setup_configure"
  /\ \E s \in Serials :
       /\ axis0[s].requested_state = "CLOSED_LOOP_CONTROL"
       /\ axis0[s].current_state = "CLOSED_LOOP_CONTROL"
       /\ axis0[s].pos_estimate = 3
       /\ axis0[s].input_pos = 3

\* C4: a step that commands move sequence[i] sets the input_pos of the
\* motor of the face named by the move's first character to its previous
\* value plus 0.25 rev when the move has no trailing apostrophe and minus
\* 0.25 rev when it has one (the sum being the program's floating-point sum).
C4_MoveTranslation ==
  [][(pc = "execute" /\ pc' = "sleep") =>
       LET move == sequence[i]
           s == DeviceOfFace(move[1])
           old == axis0[s].input_pos
       IN  /\ ~IsPrimed(move) => axis0'[s].input_pos = RoundToFloat(old + QuarterRev)
           /\ IsPrimed(move) => axis0'[s].input_pos = RoundToFloat(old - QuarterRev)
           /\ axis0'[s].input_pos # old]_vars

C4_Witness ==
  /\ pc = "sleep"
  /\ sequence[i] = <<"D", P>>
  /\ setup_pos[DeviceOfFace("D")] = QuarterRev
  /\ axis0[DeviceOfFace("D")].input_pos = 0

\* C5: moves are commanded in list order, and the next move is commanded
\* only when the motor of the move before it has reached that move's target.
C5_WaitsForSettle ==
  /\ Len(issued) <= Len(sequence)
  /\ (pc \in {"execute", "sleep"} /\ Keys(odrives) = Faces) =>
       issued = SubSeq(sequence, 1, Len(issued))
  /\ (pc = "execute" /\ i <= Len(sequence) /\ Len(issued) > 0) =>
       LET s == DeviceOfFace(issued[Len(issued)][1])
       IN  axis0[s].current_state = "CLOSED_LOOP_CONTROL" =>
             axis0[s].pos_estimate = axis0[s].input_pos

\* C6: UNSCRAMBLE_SEQUENCE is SCRAMBLE_SEQUENCE reversed with each move
\* inverted: equal lengths, and move j of the one names the face of move
\* n+1-j of the other and is primed exactly when that one is not.
C6_ReverseInverse ==
  LET n == Len(SCRAMBLE_SEQUENCE) IN
    /\ Len(UNSCRAMBLE_SEQUENCE) = n
    /\ \A j \in 1..n :
         /\ UNSCRAMBLE_SEQUENCE[j][1] = SCRAMBLE_SEQUENCE[n + 1 - j][1]
         /\ IsPrimed(UNSCRAMBLE_SEQUENCE[j]) = ~IsPrimed(SCRAMBLE_SEQUENCE[n + 1 - j])
    /\ (pc \in {"execute", "sleep"} /\ i <= Len(sequence)
          /\ Dispatch(choice) = "unscramble") =>
         /\ sequence[i][1] = SCRAMBLE_SEQUENCE[n + 1 - i][1]
         /\ IsPrimed(sequence[i]) = ~IsPrimed(SCRAMBLE_SEQUENCE[n + 1 - i])

C6_Witness ==
  /\ pc = "sleep"
  /\ Dispatch(choice) = "unscramble"
  /\ scrambles = 1
  /\ i = Len(UNSCRAMBLE_SEQUENCE)
  /\ sequence[i] = <<"R", P>>

\* C7: each device is looked up at most once; after the first failed
\* lookup no further device is looked up, connect_odrives returns None, and
\* main ends: no motor is configured, no move commanded, no prompt shown.
C7_NoRetry ==
  /\ \A f \in Faces : lookups[f] <= 1
  /\ returned = "None" =>
       /\ pc \in {"main", "failed"}
       /\ \A j \in 1..Len(SerialOrder) :
            lookups[SerialOrder[j]] = IF j <= k THEN 1 ELSE 0
       /\ axis0 \in InitialDevices
       /\ line = <<>> /\ choice = <<>> /\ issued = <<>>
       /\ setup_pos = NoPos

C7_Witness ==
  /\ pc = "failed"
  /\ k = 3
  /\ lookups["L"] = 1
  /\ lookups["B"] = 0

\* C8: a step of execute_sequence on a move whose face has a handle changes
\* the input_pos of that face's motor and leaves every other motor as it
\* was; on a move whose face has no handle it changes no motor and goes on
\* to the next move.
C8_OneMotorPerMove ==
  [][(pc = "execute" /\ i <= Len(sequence) /\ (pc' = "sleep" \/ i' = i + 1)) =>
       LET face == sequence[i][1]
           touched == {s \in Serials :
                         \/ axis0'[s].input_pos # axis0[s].input_pos
                         \/ axis0'[s].control_mode # axis0[s].control_mode
                         \/ axis0'[s].requested_state # axis0[s].requested_state}
       IN  IF face \in Keys(odrives)
             THEN /\ touched = {DeviceOfFace(face)}
                  /\ \A s \in Serials \ {DeviceOfFace(face)} : axis0'[s] = axis0[s]
                  /\ pc' = "sleep"
             ELSE /\ axis0' = axis0
                  /\ pc' = "execute"
                  /\ i' = i + 1]_vars

C8_Witness ==
  /\ pc = "returned"
  /\ sequence = << <<"R">>, <<"D", P>> >>
  /\ issued = << <<"D", P>> >>
  /\ "R" \notin Keys(odrives)

\* Net quarter turns a scramble gives each face.
ScrambleOffset(f) ==
  CASE f \in {"U", "F", "B"} -> 1
    [] f = "D" -> -1
    [] OTHER -> 0

\* C9 as stated: at the prompt after as many S as U commands every motor's
\* input_pos equals its value at the end of setup_motors, and after one
\* scramble alone it is that value plus 0.25 for U, F, B, minus 0.25 for D
\* and unchanged for R, L.
C9_RoundTrip ==
  /\ (pc = "prompt" /\ scrambles = unscrambles) =>
       \A s \in Serials : axis0[s].input_pos = setup_pos[s]
  /\ (pc = "prompt" /\ scrambles = 1 /\ unscrambles = 0) =>
       \A f \in Faces :
         axis0[DeviceOfFace(f)].input_pos =
           setup_pos[DeviceOfFace(f)] + ScrambleOffset(f) * QuarterRev

\* A position from which every quarter-turn sum the run can form is exact:
\* a multiple of 0.25 rev that stays within the significand's range.
OnGrid(x) ==
  /\ x % QuarterRev = 0
  /\ Abs(x) + (MaxCmds + 1) * QuarterRev <= (2 ^ MantBits) * QuarterRev

\* C9 amended: the same, for every motor whose input_pos at the end of
\* setup_motors is an exact multiple of 0.25 rev.
C9_RoundTripOnGrid ==
  /\ (pc = "prompt" /\ scrambles = unscrambles) =>
       \A s \in Serials :
         OnGrid(setup_pos[s]) => axis0[s].input_pos = setup_pos[s]
  /\ (pc = "prompt" /\ scrambles = 1 /\ unscrambles = 0) =>
       \A f \in Faces :
         OnGrid(setup_pos[DeviceOfFace(f)]) =>
           axis0[DeviceOfFace(f)].input_pos =
             setup_pos[DeviceOfFace(f)] + ScrambleOffset(f) * QuarterRev

C9_Witness ==
  /\ pc = "prompt"
  /\ scrambles = 2
  /\ unscrambles = 2
  /\ setup_pos[DeviceOfFace("B")] = 2 * QuarterRev
  /\ axis0[DeviceOfFace("B")].input_pos = 2 * QuarterRev

\* C10: a line read at the prompt commands nothing by itself; s or S starts
\* the scramble, u or U the unscramble, q or Q ends the loop, any other
\* line prompts again; input_pos changes in the command loop only while an
\* S or U command runs; after Q nothing more is commanded.
LineIs(l, lower, upper) == l = <<lower>> \/ l = <<upper>>

C10_OnlySAndUCommand ==
  [][/\ (pc = "prompt" /\ (line' # line \/ pc' # "prompt")) =>
          /\ InputPos(axis0') = InputPos(axis0)
          /\ LineIs(line', "s", "S") =>
               pc' = "execute" /\ sequence' = SCRAMBLE_SEQUENCE /\ i' = 1
          /\ LineIs(line', "u", "U") =>
               pc' = "execute" /\ sequence' = UNSCRAMBLE_SEQUENCE /\ i' = 1
          /\ LineIs(line', "q", "Q") => pc' = "exit"
          /\ ~(\/ LineIs(line', "s", "S") \/ LineIs(line', "u", "U")
               \/ LineIs(line', "q", "Q")) => pc' = "prompt"
     /\ (pc \in {"prompt", "execute", "sleep", "exit"}
           /\ InputPos(axis0') # InputPos(axis0)) =>
          /\ pc = "execute"
          /\ LineIs(line, "s", "S") \/ LineIs(line, "u", "U")
     /\ pc = "exit" => (pc' = "exit" /\ InputPos(axis0') = InputPos(axis0))
     /\ (pc' = "exit" /\ pc # "exit") =>
          (pc = "prompt" /\ LineIs(line', "q", "Q"))]_vars

C10_Witness ==
  /\ pc = "prompt"
  /\ line = <<"s", "u">>
  /\ scrambles = 1
  /\ unscrambles = 0

====
